---- MODULE Spec2Model ----
(***************************************************************************)
(* Model of the diff analyser and commit classifier of                     *)
(* docs/skills/git-commit-messages/commit-generator.py.                    *)
(*                                                                         *)
(* Text is modelled as TLA+ strings, which are sequences of characters:    *)
(* Len, SubSeq, Head, Tail and \o act on them as on Python strings.        *)
(* A diff is held as the list of its lines, the value of diff.split('\n'). *)
(***************************************************************************)
EXTENDS Integers, Sequences, FiniteSets, TLC

VARIABLES lines, i, analysis, pc, run, commit_type, scope, subject, prev

vars == <<lines, i, analysis, pc, run, commit_type, scope, subject, prev>>

\* ------------------------------------------------------------------ bounds

\* Longest diff, in lines.
MaxLines == 3

\* Largest line counter of a summary handed directly to the classifier.
MaxCount == 10

\* Largest file counter of a summary handed directly to the classifier.
MaxFiles == 1

\* ------------------------------------------------------------------- inputs

TestHeader == "diff --git a/tests/test_a.py b/tests/test_a.py"

DocHeader == "diff --git a/docs/guide.md b/docs/guide.md"

FrontendHeader == "diff --git a/frontend/app.js b/frontend/app.js"

FrontendHeader2 == "diff --git a/frontend/ui/b.ts b/frontend/ui/b.ts"

BackendHeader == "diff --git a/old.json b/Backend/config.json"

SrcHeader == "diff --git a/src/app.js b/src/app.js"

ReadmeHeader == "diff --git a/README.md b/README.md"

MalformedHeader == "diff --git a/src/app.js"

DiffLines ==
    {TestHeader, DocHeader, FrontendHeader, FrontendHeader2, BackendHeader,
     SrcHeader, ReadmeHeader, MalformedHeader,
     "new file mode 100644", "deleted file mode 100644", "rename from old.json",
     "+x", "-x", "+++ b/src/app.js", "--- a/src/app.js", ""}

\* ------------------------------------------------------ string primitives

\* str.startswith
StartsWith(s, p) == Len(s) >= Len(p) /\ SubSeq(s, 1, Len(p)) = p

\* the `in` operator on two strings
Contains(s, sub) ==
    \E k \in 0..(Len(s) - Len(sub)) : SubSeq(s, k + 1, k + Len(sub)) = sub

UpperChars == "ABCDEFGHIJKLMNOPQRSTUVWXYZ"

LowerChars == "abcdefghijklmnopqrstuvwxyz"

LowerChar(c) ==
    IF \E k \in 1..Len(UpperChars) : SubSeq(UpperChars, k, k) = c
    THEN LET k == CHOOSE j \in 1..Len(UpperChars) : SubSeq(UpperChars, j, j) = c
         IN  SubSeq(LowerChars, k, k)
    ELSE c

\* str.lower
RECURSIVE Lower(_)
Lower(s) == IF s = "" THEN "" ELSE LowerChar(Head(s)) \o Lower(Tail(s))

\* any(tok in s for tok in toks)
AnyIn(toks, s) == \E k \in 1..Len(toks) : Contains(s, toks[k])

\* ------------------------------------------------------------- re.search

NoMatch == [matched |-> FALSE]

HeaderPrefix == "diff --git a/"

HeaderSep == " b/"

\* The positions q at which " b/" separates a non-empty group 1, starting
\* right after the prefix found at p, from a non-empty group 2.
SepPositions(line, p) ==
    {q \in 1..Len(line) :
        /\ q >= p + Len(HeaderPrefix) + 1
        /\ q + Len(HeaderSep) <= Len(line)
        /\ SubSeq(line, q, q + Len(HeaderSep) - 1) = HeaderSep}

\* The positions at which the whole pattern can match.
MatchStarts(line) ==
    {p \in 1..Len(line) :
        /\ p + Len(HeaderPrefix) - 1 <= Len(line)
        /\ SubSeq(line, p, p + Len(HeaderPrefix) - 1) = HeaderPrefix
        /\ SepPositions(line, p) # {}}

\* Mutant: the ' b/<new>' part of the pattern is optional.
ReSearch_OptionalNew(line) ==
    IF MatchStarts(line) # {}
    THEN LET p == CHOOSE x \in MatchStarts(line) : \A y \in MatchStarts(line) : x <= y
             q == CHOOSE x \in SepPositions(line, p) :
                      \A y \in SepPositions(line, p) : y <= x
         IN  [matched  |-> TRUE,
              old_path |-> SubSeq(line, p + Len(HeaderPrefix), q - 1),
              new_path |-> SubSeq(line, q + Len(HeaderSep), Len(line))]
    ELSE IF StartsWith(line, HeaderPrefix) /\ Len(line) > Len(HeaderPrefix)
    THEN [matched  |-> TRUE,
          old_path |-> SubSeq(line, Len(HeaderPrefix) + 1, Len(line)),
          new_path |-> SubSeq(line, Len(HeaderPrefix) + 1, Len(line))]
    ELSE NoMatch

\* re.search(r'diff --git a/(.+) b/(.+)', line): the leftmost match, its
\* first group greedy (the last separator), its second group the rest.
ReSearch(line) ==
    IF MatchStarts(line) = {} THEN NoMatch
    ELSE LET p == CHOOSE x \in MatchStarts(line) : \A y \in MatchStarts(line) : x <= y
             q == CHOOSE x \in SepPositions(line, p) :
                      \A y \in SepPositions(line, p) : y <= x
         IN  [matched  |-> TRUE,
              old_path |-> SubSeq(line, p + Len(HeaderPrefix), q - 1),
              new_path |-> SubSeq(line, q + Len(HeaderSep), Len(line))]

\* ---------------------------------------------------------------- pathlib

\* The components of a path between its slashes, empty and "." ones dropped.
RECURSIVE Components(_, _)
Components(s, cur) ==
    IF s = ""
    THEN IF cur \in {"", "."} THEN <<>> ELSE <<cur>>
    ELSE IF Head(s) = "/"
         THEN (IF cur \in {"", "."} THEN <<>> ELSE <<cur>>) \o Components(Tail(s), "")
         ELSE Components(Tail(s), cur \o Head(s))

\* The root of a POSIX path: "//" for exactly two leading slashes.
Root(path) ==
    IF StartsWith(path, "///") THEN "/"
    ELSE IF StartsWith(path, "//") THEN "//"
    ELSE IF StartsWith(path, "/") THEN "/"
    ELSE ""

\* Path(path).parts
Parts(path) ==
    (IF Root(path) = "" THEN <<>> ELSE <<Root(path)>>) \o Components(path, "")

\* Path(path).name
Name(path) ==
    LET comps == Components(path, "")
    IN  IF comps = <<>> THEN "" ELSE comps[Len(comps)]

\* Path(path).suffix: from the last dot of the name, unless that dot is the
\* name's first or last character.
Suffix(path) ==
    LET name == Name(path)
        dots == {k \in 1..Len(name) : SubSeq(name, k, k) = "."}
    IN  IF dots = {} THEN ""
        ELSE LET k == CHOOSE x \in dots : \A y \in dots : y <= x
             IN  IF 1 < k /\ k < Len(name) THEN SubSeq(name, k, Len(name)) ELSE ""

\* ---------------------------------------------------------- analyze_changes

TestTokens == <<"test", "spec", "__tests__">>

ConfigTokens == <<"config", "package.json", "requirements.txt", ".env">>

DocTokens == <<"readme", "docs", ".md", ".txt">>

DefaultAnalysis ==
    [has_new_files       |-> FALSE,
     has_deleted_files   |-> FALSE,
     has_modified_files  |-> FALSE,
     has_renamed_files   |-> FALSE,
     modified_extensions |-> {},
     affected_paths      |-> {},
     lines_added         |-> 0,
     lines_deleted       |-> 0,
     test_files          |-> 0,
     config_files        |-> 0,
     doc_files           |-> 0]

\* ext = Path(new_path).suffix.lower()
Extension(new_path) == Lower(Suffix(new_path))

\* The if/elif chain that categorises a file, on the lowercased path.
Category(new_path) ==
    IF AnyIn(TestTokens, Lower(new_path)) THEN "test"
    ELSE IF AnyIn(ConfigTokens, Lower(new_path)) THEN "config"
    ELSE IF AnyIn(DocTokens, Lower(new_path)) THEN "doc"
    ELSE "none"

\* Mutant: the '+++' file line counts as an added line.
IsAddedLine_CountsFileLine(line) == StartsWith(line, "+")

IsAddedLine(line) == StartsWith(line, "+") /\ ~StartsWith(line, "+++")

IsDeletedLine(line) == StartsWith(line, "-") /\ ~StartsWith(line, "---")

\* Which branch of the loop body's if/elif chain a line takes, with what
\* the header branch extracts from it.
LineFacts(line) ==
    IF StartsWith(line, "diff --git")
    THEN LET match == ReSearch(line)
         IN  IF match.matched
             THEN [branch   |-> "header",
                   new_path |-> match.new_path,
                   ext      |-> Extension(match.new_path),
                   category |-> Category(match.new_path)]
             ELSE [branch |-> "no match"]
    ELSE IF StartsWith(line, "new file mode") THEN [branch |-> "new"]
    ELSE IF StartsWith(line, "deleted file mode") THEN [branch |-> "deleted"]
    ELSE IF StartsWith(line, "rename") THEN [branch |-> "rename"]
    ELSE IF IsAddedLine(line) THEN [branch |-> "added"]
    ELSE IF IsDeletedLine(line) THEN [branch |-> "deleted line"]
    ELSE [branch |-> "none"]

\* LineFacts of every line of the inputs, computed once.
LineTable == {<<line, LineFacts(line)>> : line \in DiffLines}

FactsOf(line) == (CHOOSE t \in LineTable : t[1] = line)[2]

\* The body of `if match:`.
FileHeader(a, f) ==
    LET a1 == [a EXCEPT !.affected_paths = @ \cup {f.new_path}]
        a2 == IF f.ext # "" THEN [a1 EXCEPT !.modified_extensions = @ \cup {f.ext}] ELSE a1
    IN  IF f.category = "test" THEN [a2 EXCEPT !.test_files = @ + 1]
        ELSE IF f.category = "config" THEN [a2 EXCEPT !.config_files = @ + 1]
        ELSE IF f.category = "doc" THEN [a2 EXCEPT !.doc_files = @ + 1]
        ELSE a2

\* One pass of the loop body over `line`.
ProcessLine(a, line) ==
    LET f == FactsOf(line)
    IN  IF f.branch = "header" THEN FileHeader(a, f)
        ELSE IF f.branch = "new" THEN [a EXCEPT !.has_new_files = TRUE]
        ELSE IF f.branch = "deleted" THEN [a EXCEPT !.has_deleted_files = TRUE]
        ELSE IF f.branch = "rename" THEN [a EXCEPT !.has_renamed_files = TRUE]
        ELSE IF f.branch = "added" THEN [a EXCEPT !.lines_added = @ + 1]
        ELSE IF f.branch = "deleted line" THEN [a EXCEPT !.lines_deleted = @ + 1]
        ELSE a

\* The paths the inputs' headers name.
KnownPaths == {t[2].new_path : t \in {u \in LineTable : u[2].branch = "header"}}

\* ------------------------------------------------------ determine_commit_type

ConfigExtensions == {".json", ".yml", ".yaml", ".toml", ".ini"}

\* Mutant: the added lines need only be twice the deleted ones.
determine_commit_type_AtLeastTwice(a) ==
    IF a.test_files > 0 /\ a.test_files = Cardinality(a.affected_paths)
    THEN "test"
    ELSE IF a.doc_files > 0 /\ a.doc_files = Cardinality(a.affected_paths)
    THEN "docs"
    ELSE IF a.config_files > 0 /\ \E ext \in a.modified_extensions : ext \in ConfigExtensions
    THEN "chore"
    ELSE IF a.has_new_files /\ ~a.has_modified_files /\ ~a.has_deleted_files
    THEN "feat"
    ELSE IF a.has_deleted_files /\ ~a.has_new_files /\ ~a.has_modified_files
    THEN "chore"
    ELSE IF a.lines_added >= a.lines_deleted * 2
    THEN "feat"
    ELSE IF a.lines_deleted > a.lines_added * 2
    THEN "refactor"
    ELSE "fix"

\* Mutant: refactor as soon as more lines are deleted than added.
determine_commit_type_MoreDeleted(a) ==
    IF a.test_files > 0 /\ a.test_files = Cardinality(a.affected_paths)
    THEN "test"
    ELSE IF a.doc_files > 0 /\ a.doc_files = Cardinality(a.affected_paths)
    THEN "docs"
    ELSE IF a.config_files > 0 /\ \E ext \in a.modified_extensions : ext \in ConfigExtensions
    THEN "chore"
    ELSE IF a.has_new_files /\ ~a.has_modified_files /\ ~a.has_deleted_files
    THEN "feat"
    ELSE IF a.has_deleted_files /\ ~a.has_new_files /\ ~a.has_modified_files
    THEN "chore"
    ELSE IF a.lines_added > a.lines_deleted * 2
    THEN "feat"
    ELSE IF a.lines_deleted > a.lines_added
    THEN "refactor"
    ELSE "fix"

\* Mutant: the new-file rule is tried before the docs rule.
determine_commit_type_NewFileFirst(a) ==
    IF a.test_files > 0 /\ a.test_files = Cardinality(a.affected_paths)
    THEN "test"
    ELSE IF a.has_new_files /\ ~a.has_modified_files /\ ~a.has_deleted_files
    THEN "feat"
    ELSE IF a.config_files > 0 /\ \E ext \in a.modified_extensions : ext \in ConfigExtensions
    THEN "chore"
    ELSE IF a.doc_files > 0 /\ a.doc_files = Cardinality(a.affected_paths)
    THEN "docs"
    ELSE IF a.has_deleted_files /\ ~a.has_new_files /\ ~a.has_modified_files
    THEN "chore"
    ELSE IF a.lines_added > a.lines_deleted * 2
    THEN "feat"
    ELSE IF a.lines_deleted > a.lines_added * 2
    THEN "refactor"
    ELSE "fix"

determine_commit_type(a) ==
    IF a.test_files > 0 /\ a.test_files = Cardinality(a.affected_paths)
    THEN "test"
    ELSE IF a.doc_files > 0 /\ a.doc_files = Cardinality(a.affected_paths)
    THEN "docs"
    ELSE IF a.config_files > 0 /\ \E ext \in a.modified_extensions : ext \in ConfigExtensions
    THEN "chore"
    ELSE IF a.has_new_files /\ ~a.has_modified_files /\ ~a.has_deleted_files
    THEN "feat"
    ELSE IF a.has_deleted_files /\ ~a.has_new_files /\ ~a.has_modified_files
    THEN "chore"
    ELSE IF a.lines_added > a.lines_deleted * 2
    THEN "feat"
    ELSE IF a.lines_deleted > a.lines_added * 2
    THEN "refactor"
    ELSE "fix"

\* ------------------------------------------------------------ determine_scope

ReservedScopes == {"src", "lib", "app", "test", "tests", "docs"}

\* The orders in which a set may be iterated: Python fixes none for a set of
\* strings (string hashes are salted per process).
IterationOrders(S) ==
    {o \in [1..Cardinality(S) -> S] : \A j, k \in 1..Cardinality(S) : o[j] = o[k] => j = k}

\* Mutant: a path of a single part gives a candidate too.
ScopeCandidate_AnyDepth(path) ==
    LET sc == Lower(Parts(path)[1])
    IN  IF sc \notin ReservedScopes THEN <<sc>> ELSE <<>>

\* What the loop body appends to `scopes` for `path`: nothing, or the
\* lowercased first part.
ScopeCandidate(path) ==
    LET parts == Parts(path)
    IN  IF Len(parts) > 1
        THEN LET sc == Lower(parts[1])
             IN  IF sc \notin ReservedScopes THEN <<sc>> ELSE <<>>
        ELSE <<>>

\* ScopeCandidate of every path of the inputs, computed once.
ScopeTable == {<<path, ScopeCandidate(path)>> : path \in KnownPaths}

CandidateOf(path) == (CHOOSE t \in ScopeTable : t[1] = path)[2]

\* The list `scopes` after the loop has visited the paths in `order`.
RECURSIVE ScopesOf(_)
ScopesOf(order) ==
    IF order = <<>> THEN <<>>
    ELSE CandidateOf(Head(order)) \o ScopesOf(Tail(order))

\* scopes.count(x)
Count(scopes, x) == Cardinality({k \in 1..Len(scopes) : scopes[k] = x})

\* Mutant: the first scope of the iteration, whatever its count.
MaxByCount_First(order, scopes) == order[1]

\* max(iterable, key=scopes.count) over the iteration order `order`: the
\* first element whose key no other element exceeds.
MaxByCount(order, scopes) ==
    LET best == {k \in 1..Len(order) :
                    \A j \in 1..Len(order) : Count(scopes, order[j]) <= Count(scopes, order[k])}
    IN  order[CHOOSE k \in best : \A j \in best : k <= j]

\* determine_scope, given the list built by the loop and the order in which
\* set(scopes) is iterated.
determine_scope(a, scopes, set_order) ==
    IF a.affected_paths = {} THEN ""
    ELSE IF scopes # <<>>
    THEN IF Len(scopes) = 1 THEN scopes[1] ELSE MaxByCount(set_order, scopes)
    ELSE ""

\* ----------------------------------------------------------- generate_subject

Description(type_hint, a) ==
    IF type_hint = "feat"
    THEN IF a.has_new_files THEN "add new functionality" ELSE "implement new feature"
    ELSE IF type_hint = "fix" THEN "fix issue"
    ELSE IF type_hint = "docs" THEN "update documentation"
    ELSE IF type_hint = "test" THEN "add tests"
    ELSE IF type_hint = "refactor" THEN "refactor code"
    ELSE IF type_hint = "style" THEN "update code style"
    ELSE IF type_hint = "chore" THEN "update configuration"
    ELSE "update code"

generate_subject(type_hint, sc, a) ==
    LET type_str == IF sc # "" THEN type_hint \o "(" \o sc \o ")" ELSE type_hint
    IN  type_str \o ": " \o Description(type_hint, a)

\* ------------------------------------------------------------------ actions

\* The values diff.split('\n') can take: at least one line, "" for the
\* empty text.
Diffs == UNION {[1..n -> DiffLines] : n \in 1..MaxLines}

NoResult == [present |-> FALSE]

Init ==
    /\ lines \in Diffs
    /\ i = 0
    /\ analysis = DefaultAnalysis
    /\ pc = "scan"
    /\ run = 1
    /\ commit_type = ""
    /\ scope = ""
    /\ subject = ""
    /\ prev = NoResult

\* One iteration of the while loop of analyze_changes.
ScanLine ==
    /\ pc = "scan"
    /\ i < Len(lines)
    /\ analysis' = ProcessLine(analysis, lines[i + 1])
    /\ i' = i + 1
    /\ UNCHANGED <<lines, pc, run, commit_type, scope, subject, prev>>

\* The loop condition fails and analyze_changes returns the summary.
Return ==
    /\ pc = "scan"
    /\ i >= Len(lines)
    /\ pc' = "classify"
    /\ UNCHANGED <<lines, i, analysis, run, commit_type, scope, subject, prev>>

\* determine_commit_type, determine_scope and generate_subject on the summary.
Classify ==
    /\ pc = "classify"
    /\ \E path_order \in IterationOrders(analysis.affected_paths) :
         LET scopes == ScopesOf(path_order)
         IN  \E set_order \in IterationOrders({scopes[k] : k \in 1..Len(scopes)}) :
               /\ commit_type' = determine_commit_type(analysis)
               /\ scope' = determine_scope(analysis, scopes, set_order)
               /\ subject' = generate_subject(commit_type', scope', analysis)
    /\ pc' = "done"
    /\ UNCHANGED <<lines, i, analysis, run, prev>>

\* The generator is run a second time on the same diff text.
Again ==
    /\ pc = "done"
    /\ run = 1
    /\ prev' = [present |-> TRUE, analysis |-> analysis, commit_type |-> commit_type,
                scope |-> scope, subject |-> subject]
    /\ run' = 2
    /\ i' = 0
    /\ analysis' = DefaultAnalysis
    /\ pc' = "scan"
    /\ UNCHANGED <<lines, commit_type, scope, subject>>

Next == ScanLine \/ Return \/ Classify \/ Again

Spec == Init /\ [][Next]_vars

\* One call of analyze_changes, on its own.
Analyze == ScanLine \/ Return

\* Python runs the call to completion: a step that can be taken is taken.
AnalyzeSpec == Init /\ [][Analyze]_vars /\ WF_vars(Analyze)

\* ------------------------------------------- the classifier as a function

\* The summaries handed directly to determine_commit_type: any dictionary
\* with the analyser's keys.
Summaries ==
    [has_new_files       : BOOLEAN,
     has_deleted_files   : BOOLEAN,
     has_modified_files  : BOOLEAN,
     has_renamed_files   : {FALSE},
     modified_extensions : SUBSET {".json", ".js"},
     affected_paths      : SUBSET {"docs/guide.md", "frontend/app.js"},
     lines_added         : 0..MaxCount,
     lines_deleted       : 0..MaxCount,
     test_files          : 0..MaxFiles,
     config_files        : 0..MaxFiles,
     doc_files           : 0..MaxFiles]

InitSummary ==
    /\ lines = <<"">>
    /\ i = 1
    /\ analysis \in Summaries
    /\ pc = "classify"
    /\ run = 1
    /\ commit_type = ""
    /\ scope = ""
    /\ subject = ""
    /\ prev = NoResult

SpecSummary == InitSummary /\ [][Classify]_vars

\* ------------------------------------------------------------------ claims

Done == pc = "done"

\* C1: in every state of the scan and in the returned summary, the three
\* bucket counters together do not exceed the number of affected paths.
C1_CountersWithinPaths ==
    analysis.test_files + analysis.config_files + analysis.doc_files
        <= Cardinality(analysis.affected_paths)

\* C2: when the affected paths (there is at least one) all contain "test",
\* the commit type is 'test'.
C2_AllTestPathsGiveTest ==
    (/\ Done
     /\ analysis.affected_paths # {}
     /\ \A path \in analysis.affected_paths : Contains(path, "test"))
        => commit_type = "test"

\* The diff has no 'diff --git' line and no counted added or deleted line.
NoHeaderNoChange ==
    /\ \A k \in 1..Len(lines) : ~StartsWith(lines[k], "diff --git")
    /\ analysis.lines_added = 0
    /\ analysis.lines_deleted = 0

\* C3, as claimed: a diff with no 'diff --git' line and no counted line
\* gives type 'fix' and scope '', whatever other lines it contains.
C3_NoChangeGivesFix_Original ==
    (Done /\ NoHeaderNoChange) => (commit_type = "fix" /\ scope = "")

\* C3, amended: a diff with no 'diff --git' line and no counted line, in
\* which a 'new file mode' line occurs exactly when a 'deleted file mode'
\* line does, gives type 'fix' and scope ''.
C3_NoChangeGivesFix ==
    (/\ Done
     /\ NoHeaderNoChange
     /\ analysis.has_new_files = analysis.has_deleted_files)
        => (commit_type = "fix" /\ scope = "")

\* A diff of status lines only, with both a new and a deleted file, has
\* been classified.
C3_Witness ==
    /\ Done
    /\ NoHeaderNoChange
    /\ Len(lines) >= 2
    /\ analysis.has_new_files
    /\ analysis.has_deleted_files
    /\ commit_type = "fix"

\* C4: the second run of the generator on the same diff text ends with the
\* summary, type, scope and subject of the first.
C4_SameResultTwice ==
    (Done /\ run = 2)
        => prev = [present |-> TRUE, analysis |-> analysis, commit_type |-> commit_type,
                   scope |-> scope, subject |-> subject]

\* The first part of a path, lowercased.
FirstSegment(path) == Lower(Parts(path)[1])

FirstSegmentTable == {<<path, FirstSegment(path), Len(Parts(path))>> : path \in KnownPaths}

FirstSegmentOf(path) == (CHOOSE t \in FirstSegmentTable : t[1] = path)[2]

PartCountOf(path) == (CHOOSE t \in FirstSegmentTable : t[1] = path)[3]

\* The scope is '' without a path among `sources` and the first segment of
\* the one path among `sources` when there is exactly one.
ScopeFromSources(sources) ==
    /\ sources = {} => scope = ""
    /\ \A path \in sources : sources = {path} => scope = FirstSegmentOf(path)

\* C5, as claimed: every affected path, whether of one segment or several,
\* gives its lowercased first segment as a candidate unless it is reserved.
C5_ScopeFromEveryPath_Original ==
    Done => ScopeFromSources({path \in analysis.affected_paths :
                                 FirstSegmentOf(path) \notin ReservedScopes})

\* C5, amended: every affected path of two or more segments gives its
\* lowercased first segment as a candidate unless it is reserved; the scope
\* is '' without a candidate and the candidate when there is exactly one;
\* frontend/app.js alone gives 'frontend' and src/app.js alone gives ''.
C5_ScopeFromDirectories ==
    Done =>
        /\ ScopeFromSources({path \in analysis.affected_paths :
                                /\ PartCountOf(path) > 1
                                /\ FirstSegmentOf(path) \notin ReservedScopes})
        /\ analysis.affected_paths = {"frontend/app.js"} => scope = "frontend"
        /\ analysis.affected_paths = {"src/app.js"} => scope = ""

\* A file at the top level and one file in a directory have been scoped.
C5_Witness ==
    /\ Done
    /\ analysis.affected_paths = {"README.md", "Backend/config.json"}
    /\ scope = "backend"

\* The conditions of the first seven rules of the cascade, on the summary.
Rule1 == analysis.test_files > 0 /\ analysis.test_files = Cardinality(analysis.affected_paths)

Rule2 == analysis.doc_files > 0 /\ analysis.doc_files = Cardinality(analysis.affected_paths)

Rule3 ==
    /\ analysis.config_files > 0
    /\ analysis.modified_extensions \cap {".json", ".yml", ".yaml", ".toml", ".ini"} # {}

Rule4 ==
    analysis.has_new_files /\ ~analysis.has_deleted_files /\ ~analysis.has_modified_files

Rule5 ==
    analysis.has_deleted_files /\ ~analysis.has_new_files /\ ~analysis.has_modified_files

Rule6 == analysis.lines_added > 2 * analysis.lines_deleted

Rule7 == analysis.lines_deleted > 2 * analysis.lines_added

NoSignal == ~Rule1 /\ ~Rule2 /\ ~Rule3 /\ ~Rule4 /\ ~Rule5

DocsPaths == {path \in KnownPaths : StartsWith(path, "docs/") /\ Category(path) = "doc"}

\* The diff is one header for a doc path under docs/, one 'new file mode'
\* line and one or more added lines, in any order.
NewDocDiff(path) ==
    \E h, n \in 1..Len(lines) :
        /\ h # n
        /\ Len(lines) >= 3
        /\ lines[h] = "diff --git a/" \o path \o " b/" \o path
        /\ StartsWith(lines[n], "new file mode")
        /\ \A k \in 1..Len(lines) \ {h, n} :
              StartsWith(lines[k], "+") /\ ~StartsWith(lines[k], "+++")

\* C7: a new doc file under docs/ with N >= 1 added lines gives the one
\* affected path, doc_files = 1, has_new_files, lines_added = N, type
\* 'docs', scope '' and subject 'docs: update documentation'.
C7_NewDocFile ==
    \A path \in DocsPaths :
        (Done /\ NewDocDiff(path)) =>
            /\ analysis.affected_paths = {path}
            /\ analysis.doc_files = 1
            /\ analysis.has_new_files
            /\ analysis.lines_added = Len(lines) - 2
            /\ commit_type = "docs"
            /\ scope = ""
            /\ subject = "docs: update documentation"

\* The new-file diff of docs/guide.md has been classified.
C7_Witness ==
    /\ Done
    /\ NewDocDiff("docs/guide.md")
    /\ analysis.lines_added >= 1
    /\ subject = "docs: update documentation"

\* What a 'diff --git' line of the inputs holds: whether it has the form
\* 'diff --git a/<old> b/<new>' with both paths non-empty, its new path,
\* and which bucket tokens the lowercased new path contains.
HeaderReading(line) ==
    LET cuts == {q \in (Len(HeaderPrefix) + 2)..(Len(line) - Len(HeaderSep)) :
                    SubSeq(line, q, q + Len(HeaderSep) - 1) = HeaderSep}
    IN  IF StartsWith(line, HeaderPrefix) /\ cuts # {}
        THEN LET q == CHOOSE x \in cuts : \A y \in cuts : y <= x
                 path == SubSeq(line, q + Len(HeaderSep), Len(line))
             IN  [well_formed |-> TRUE,
                  path        |-> path,
                  test        |-> AnyIn(TestTokens, Lower(path)),
                  config      |-> AnyIn(ConfigTokens, Lower(path)),
                  doc         |-> AnyIn(DocTokens, Lower(path))]
        ELSE [well_formed |-> FALSE]

HeaderReadings ==
    {<<line, HeaderReading(line)>> : line \in {l \in DiffLines : StartsWith(l, "diff --git")}}

ReadingOf(line) == (CHOOSE t \in HeaderReadings : t[1] = line)[2]

\* The analyser has just scanned a line.
ScanStep == pc = "scan" /\ i' = i + 1

\* The summary after the step differs from the one before at most in the
\* counter that `bucket` names, which is one larger, and in the two sets.
OnlyBucket(bucket) ==
    /\ analysis'.test_files = analysis.test_files + (IF bucket = "test" THEN 1 ELSE 0)
    /\ analysis'.config_files = analysis.config_files + (IF bucket = "config" THEN 1 ELSE 0)
    /\ analysis'.doc_files = analysis.doc_files + (IF bucket = "doc" THEN 1 ELSE 0)
    /\ analysis'.has_new_files = analysis.has_new_files
    /\ analysis'.has_deleted_files = analysis.has_deleted_files
    /\ analysis'.has_renamed_files = analysis.has_renamed_files
    /\ analysis'.lines_added = analysis.lines_added
    /\ analysis'.lines_deleted = analysis.lines_deleted

\* The effect the claim allows the scan of lines[i + 1] to have.
LineEffect ==
    LET line == lines[i + 1]
    IN  /\ StartsWith(line, "diff --git") =>
              LET r == ReadingOf(line)
              IN  IF ~r.well_formed THEN analysis' = analysis
                  ELSE IF r.test THEN OnlyBucket("test")
                  ELSE IF r.config THEN OnlyBucket("config")
                  ELSE IF r.doc THEN OnlyBucket("doc")
                  ELSE OnlyBucket("none")
        /\ StartsWith(line, "new file mode") =>
              analysis' = [analysis EXCEPT !.has_new_files = TRUE]
        /\ StartsWith(line, "deleted file mode") =>
              analysis' = [analysis EXCEPT !.has_deleted_files = TRUE]
        /\ StartsWith(line, "rename") =>
              analysis' = [analysis EXCEPT !.has_renamed_files = TRUE]
        /\ (StartsWith(line, "+") /\ ~StartsWith(line, "+++")) =>
              analysis' = [analysis EXCEPT !.lines_added = @ + 1]
        /\ (StartsWith(line, "-") /\ ~StartsWith(line, "---")) =>
              analysis' = [analysis EXCEPT !.lines_deleted = @ + 1]
        /\ (\/ StartsWith(line, "+++")
            \/ StartsWith(line, "---")
            \/ ~\E prefix \in {"diff --git", "new file mode", "deleted file mode",
                               "rename", "+", "-"} : StartsWith(line, prefix)) =>
              analysis' = analysis

Frequency(candidate) ==
    Cardinality({path \in analysis.affected_paths : CandidateOf(path) = <<candidate>>})

\* The scope candidates of the affected paths.
Candidates == {CandidateOf(path)[1] : path \in {q \in analysis.affected_paths : CandidateOf(q) # <<>>}}

\* C9: with two or more scope candidates the scope is a candidate that no
\* other candidate outnumbers, and it is no reserved segment.
C9_MostFrequentScope ==
    (/\ Done
     /\ Cardinality({path \in analysis.affected_paths : CandidateOf(path) # <<>>}) >= 2)
        => /\ scope \in Candidates
           /\ \A other \in Candidates : Frequency(other) <= Frequency(scope)
           /\ scope \notin ReservedScopes

\* Two files under frontend/ and one under Backend/ have been scoped.
C9_Witness ==
    /\ Done
    /\ analysis.affected_paths = {"frontend/app.js", "frontend/ui/b.ts", "Backend/config.json"}
    /\ scope = "frontend"

\* The 'diff --git' lines of the inputs that do not have the header's form.
MalformedLines ==
    {line \in DiffLines : StartsWith(line, "diff --git") /\ ~ReadingOf(line).well_formed}

\* C10: the scan takes the lines one by one, from the first to the last,
\* and then returns; a malformed header leaves the summary unchanged and
\* the scan goes on; the empty text gives the default summary; every scan
\* ends with a summary.
C10_TotalOnePass ==
    /\ [](pc \in {"scan", "classify", "done"} /\ i \in 0..Len(lines))
    /\ [](pc # "scan" => i = Len(lines))
    /\ [](lines = <<"">> => analysis = DefaultAnalysis)
    /\ [][(pc = "scan" /\ i < Len(lines)) =>
             (i' = i + 1 /\ pc' = "scan" /\ lines' = lines)]_vars
    /\ [][(pc = "scan" /\ i < Len(lines) /\ lines[i + 1] \in MalformedLines) =>
             analysis' = analysis]_vars
    /\ [][(pc = "scan" /\ pc' # "scan") => (i = Len(lines) /\ analysis' = analysis)]_vars
    /\ (pc = "scan") ~> (pc = "classify")

\* The scan has passed a malformed header and gone on to count a line.
C10_Witness ==
    /\ pc = "classify"
    /\ lines = <<MalformedHeader, "+x">>
    /\ analysis = [DefaultAnalysis EXCEPT !.lines_added = 1]

====
